---- MODULE Spec2Model ----
(***************************************************************************)
(* NumberRobotSnake (src/robots/number.py): the per-tick decision of a     *)
(* robot snake on a grid.  Positions are <<x, y>>, a cell of the world is  *)
(* a record [char, color], a direction is named and Vector(d) gives its    *)
(* (xdir, ydir).  A float the code computes as a / b is kept as the pair   *)
(* <<a, b>>; 1.0 is <<1, 1>>.  The integers involved are far too small for *)
(* two different quotients to round to the same float, so comparing the    *)
(* pairs by cross-multiplication is what Python's comparison does.         *)
(***************************************************************************)
EXTENDS Integers, Sequences, FiniteSets, TLC

\* ---------------------------------------------------------------- bounds
\* world.SIZE_X, world.SIZE_Y: the host's grid.
SIZE_X == 3
SIZE_Y == 2
\* Non-void cells of a snapshot the decision is checked on (SpecSnapshot).
MaxObjects == 3
\* Non-void cells the host may have drawn in the changing world (Spec).
MaxDrawn == 1
\* Largest limit reachable_fraction is compared with its reference for.
MaxLimit == 4

\* ------------------------------------------------ host's symbols (RobotSnake)
CH_VOID == " "
CH_STONE == "#"
CH_HEAD == "@"
CH_BODY == "*"
CH_TAIL == "$"
CH_DEAD == "x"
BODY_CHARS == {CH_HEAD, CH_BODY, CH_TAIL}
DEAD_BODY_CHARS == {CH_DEAD}
\* self.color, a foreign snake's colour, the colour of an unowned cell.
MyColor == "me"
OtherColor == "other"
NoColor == "none"

UP == "UP"
DOWN == "DOWN"
LEFT == "LEFT"
RIGHT == "RIGHT"
DIRECTIONS == <<UP, DOWN, LEFT, RIGHT>>
Vector(d) ==
    CASE d = UP -> <<0, -1>>
      [] d = DOWN -> <<0, 1>>
      [] d = LEFT -> <<-1, 0>>
      [] d = RIGHT -> <<1, 0>>

\* Python's None, and "nothing returned yet".
None == "None"
NoResult == "-"

\* string.digits and int(char).
Digits == {"0", "1", "2", "3", "4", "5", "6", "7", "8", "9"}
DigitSeq == <<"0", "1", "2", "3", "4", "5", "6", "7", "8", "9">>
IntOf(char) == (CHOOSE i \in 1..Len(DigitSeq) : DigitSeq[i] = char) - 1

\* ------------------------------------------------------------ the program
\* BLOCKS without the dead snakes' remains.
BLOCKSWithoutDead == {CH_STONE} \cup BODY_CHARS

\* __init__: self.BLOCKS
BLOCKS == {CH_STONE} \cup BODY_CHARS \cup DEAD_BODY_CHARS

Position(x, y) == <<x, y>>
Coords == {Position(x, y) : x \in 0..(SIZE_X - 1), y \in 0..(SIZE_Y - 1)}
Abs(n) == IF n < 0 THEN -n ELSE n

VARIABLES
    world,            \* the host's grid: Coords -> [char, color]
    memo,             \* is_block's lru_cache: the answers it holds, by point
    length, head, tail, body,
    plan, plan_directions,
    cx, cy,           \* get_to's current point
    point,            \* get_to's target, find_best's answer (<<>>: None)
    pc,               \* "idle" | "plan" | "backup"
    raised,           \* the last exception raised in this cycle, or NoResult
    via,              \* what produced the returned value: "plan" | "backup"
    result            \* what the last next_direction handed to the host

vars == <<world, memo, length, head, tail, body, plan, plan_directions,
          cx, cy, point, pc, raised, via, result>>

\* is_block (without the cache): bounds, then the cell's char.
IsBlockUncached(w, p) ==
    IF p[1] < 0 \/ p[1] >= SIZE_X \/ p[2] < 0 \/ p[2] >= SIZE_Y
    THEN TRUE
    ELSE w[p].char \in BLOCKS

\* is_block through functools.lru_cache: a cached answer is returned as is.
\* (maxsize = 1600 only makes the cache forget; a forgotten point is computed
\* again from the world, which is what an uncached point gets here.)
is_block(p) == IF p \in DOMAIN memo THEN memo[p] ELSE IsBlockUncached(world, p)

\* cache_clear left out: the cache outlives the cycle.
cache_clearSkipped(m) == m

\* The cache emptied (is_block.cache_clear()).
cache_clear(m) == [p \in {} |-> TRUE]

\* What the cache holds once the points in asked have been asked for.
Remember(asked) == [p \in (DOMAIN memo) \cup asked |-> is_block(p)]

Step(p, d) == Position(p[1] + Vector(d)[1], p[2] + Vector(d)[2])

\* a / b against c / d, as floats.
FracLess(f, g) == f[1] * g[2] < g[1] * f[2]
FracEq(f, g) == f[1] * g[2] = g[1] * f[2]
One == <<1, 1>>

\* flood_fill's "add neighborhood": the neighbours not in done, in the order
\* of DIRECTIONS.
Neighborhood(cp, done) ==
    LET nb == [i \in 1..Len(DIRECTIONS) |-> Step(cp, DIRECTIONS[i])]
    IN SelectSeq(nb, LAMBDA q : q \notin done)

\* flood_fill that never adds a point to done.
RECURSIVE FloodFillNoDone(_, _, _, _, _)
FloodFillNoDone(points_to_check, done, points, len, asked) ==
    IF points_to_check = <<>>
    THEN [room |-> <<points, len>>, asked |-> asked]
    ELSE LET n == Len(points_to_check)
             cp == points_to_check[n]
             rest == SubSeq(points_to_check, 1, n - 1)
         IN IF cp \in done
            THEN FloodFillNoDone(rest, done, points, len, asked)
            ELSE IF is_block(cp)
            THEN FloodFillNoDone(rest, done, points, len, asked \cup {cp})
            ELSE IF points + 1 >= len
            THEN [room |-> One, asked |-> asked \cup {cp}]
            ELSE FloodFillNoDone(rest \o Neighborhood(cp, done), done,
                                 points + 1, len, asked \cup {cp})

\* free_room driving flood_fill, with self.length = len: the stack
\* points_to_check, the set done, the points counted so far.  room is the
\* float returned; asked, the points is_block was asked for.  (With len = 0
\* and nothing yielded the code divides 0 by 0: room <<0, 0>>.  No caller
\* starts a fill on a blocked point.)
RECURSIVE FloodFill(_, _, _, _, _)
FloodFill(points_to_check, done, points, len, asked) ==
    IF points_to_check = <<>>
    THEN [room |-> <<points, len>>, asked |-> asked]
    ELSE LET n == Len(points_to_check)
             cp == points_to_check[n]
             rest == SubSeq(points_to_check, 1, n - 1)
         IN IF cp \in done
            THEN FloodFill(rest, done, points, len, asked)
            ELSE IF is_block(cp)
            THEN FloodFill(rest, done, points, len, asked \cup {cp})
            ELSE IF points + 1 >= len
            THEN [room |-> One, asked |-> asked \cup {cp}]
            ELSE FloodFill(rest \o Neighborhood(cp, done), done \cup {cp},
                           points + 1, len, asked \cup {cp})

FreeRoomAt(p, len) == FloodFill(<<p>>, {}, 0, len, {})
free_room(p) == FreeRoomAt(p, length)

\* The scan order of "for y in range(SIZE_Y): for x in range(SIZE_X)".
ScanOrder ==
    [i \in 1..(SIZE_X * SIZE_Y) |-> Position((i - 1) % SIZE_X, (i - 1) \div SIZE_X)]

\* get_position: body and length start empty, head and tail keep their value
\* until a cell of the agent's colour carries the marker.
RECURSIVE Scan(_, _, _)
Scan(w, i, st) ==
    IF i > Len(ScanOrder) THEN st
    ELSE LET p == ScanOrder[i]
             c == w[p]
         IN IF c.color = MyColor
            THEN Scan(w, i + 1,
                      [length |-> st.length + 1,
                       head |-> IF c.char = CH_HEAD THEN p ELSE st.head,
                       tail |-> IF c.char = CH_TAIL THEN p ELSE st.tail,
                       body |-> Append(st.body, p)])
            ELSE Scan(w, i + 1, st)

get_position(w) ==
    Scan(w, 1, [length |-> 0, head |-> head, tail |-> tail, body |-> <<>>])

\* compute_score that forgets the distance.
compute_scoreBonusOnly(bonus, dist) == <<bonus, 1>>

distance(p1, p2) == Abs(p1[1] - p2[1]) + Abs(p1[2] - p2[2])
compute_score(bonus, dist) == <<bonus, dist>>

\* Python's order on (x, y) and on (score, Position).
PosLess(p, q) == p[1] < q[1] \/ (p[1] = q[1] /\ p[2] < q[2])
ScoredLess(a, b) == FracLess(a[1], b[1]) \/ (FracEq(a[1], b[1]) /\ PosLess(a[2], b[2]))

\* find_best's list points, in scan order.
ScoredPoints(w, h) ==
    LET digits == SelectSeq(ScanOrder, LAMBDA p : w[p].char \in Digits)
    IN [i \in 1..Len(digits) |->
          <<compute_score(IntOf(w[digits[i]].char), distance(h, digits[i])), digits[i]>>]

\* max(points): the first greatest element.
RECURSIVE MaxScored(_, _, _)
MaxScored(s, i, best) ==
    IF i > Len(s) THEN best
    ELSE MaxScored(s, i + 1, IF ScoredLess(best, s[i]) THEN s[i] ELSE best)

\* compute_score divides by a distance of 0: a digit under self.head.
FindBestRaises(w, h) == \E p \in Coords : w[p].char \in Digits /\ distance(h, p) = 0

\* find_best: <<>> for None, else <<the point>>.
find_best(w, h) ==
    LET points == ScoredPoints(w, h)
    IN IF points = <<>> THEN <<>>
       ELSE <<MaxScored(points, 2, points[1])[2]>>

\* The dominance test with >= for >: ties go to the horizontal axis.
preferred_directionTiesHorizontal(dx, dy) ==
    IF dx = 0 THEN (IF dy > 0 THEN UP ELSE DOWN)
    ELSE IF dy = 0 THEN (IF dx > 0 THEN LEFT ELSE RIGHT)
    ELSE IF Abs(dx) >= Abs(dy) THEN (IF dx > 0 THEN LEFT ELSE RIGHT)
    ELSE (IF dy > 0 THEN UP ELSE DOWN)

\* get_to, lines 71-86: the preferred direction and the backup directions.
preferred_direction(dx, dy) ==
    IF dx = 0 THEN (IF dy > 0 THEN UP ELSE DOWN)
    ELSE IF dy = 0 THEN (IF dx > 0 THEN LEFT ELSE RIGHT)
    ELSE IF Abs(dx) > Abs(dy) THEN (IF dx > 0 THEN LEFT ELSE RIGHT)
    ELSE (IF dy > 0 THEN UP ELSE DOWN)

backup_directions(dx, dy) ==
    IF dx = 0 THEN {RIGHT, LEFT}
    ELSE IF dy = 0 THEN {UP, DOWN}
    ELSE IF Abs(dx) > Abs(dy) THEN {IF dy > 0 THEN UP ELSE DOWN}
    ELSE {IF dx > 0 THEN LEFT ELSE RIGHT}

\* Every order random.choice / random.shuffle can produce of a set.
Orders(S) ==
    {o \in [1..Cardinality(S) -> S] : \A i, j \in 1..Cardinality(S) : i # j => o[i] # o[j]}

\* iter_directions: the preferred direction, then the backups in some order.
iter_directions(preferred, backups) == {<<preferred>> \o o : o \in Orders(backups)}

InPlan(p) == \E i \in 1..Len(plan) : plan[i] = p

\* The for loop without "next_point in self.plan".
RECURSIVE TryDirectionsNoPlanCheck(_, _, _)
TryDirectionsNoPlanCheck(dirs, i, asked) ==
    IF i > Len(dirs)
    THEN [found |-> FALSE, direction |-> None, next_point |-> <<>>, asked |-> asked]
    ELSE LET next_point == Position(cx + Vector(dirs[i])[1], cy + Vector(dirs[i])[2])
         IN IF is_block(next_point)
            THEN TryDirectionsNoPlanCheck(dirs, i + 1, asked \cup {next_point})
            ELSE LET fr == free_room(next_point)
                 IN IF FracLess(fr.room, One)
                    THEN TryDirectionsNoPlanCheck(dirs, i + 1,
                                                  asked \cup {next_point} \cup fr.asked)
                    ELSE [found |-> TRUE, direction |-> dirs[i],
                          next_point |-> next_point,
                          asked |-> asked \cup {next_point} \cup fr.asked]

\* get_to's for loop (lines 88-97) over the directions dirs from index i:
\* the first direction whose next point passes line 90, or found = FALSE
\* (for ... else: raise CannotContinue).
RECURSIVE TryDirections(_, _, _)
TryDirections(dirs, i, asked) ==
    IF i > Len(dirs)
    THEN [found |-> FALSE, direction |-> None, next_point |-> <<>>, asked |-> asked]
    ELSE LET next_point == Position(cx + Vector(dirs[i])[1], cy + Vector(dirs[i])[2])
         IN IF is_block(next_point)
            THEN TryDirections(dirs, i + 1, asked \cup {next_point})
            ELSE IF InPlan(next_point)
            THEN TryDirections(dirs, i + 1, asked \cup {next_point})
            ELSE LET fr == free_room(next_point)
                 IN IF FracLess(fr.room, One)
                    THEN TryDirections(dirs, i + 1, asked \cup {next_point} \cup fr.asked)
                    ELSE [found |-> TRUE, direction |-> dirs[i],
                          next_point |-> next_point,
                          asked |-> asked \cup {next_point} \cup fr.asked]

\* Python's order on Vector(xdir, ydir) and on (free_room, direction).
VecLess(d, e) ==
    Vector(d)[1] < Vector(e)[1] \/ (Vector(d)[1] = Vector(e)[1] /\ Vector(d)[2] < Vector(e)[2])
\* The order reversed: max(unblocked) then yields the least room.
RoomLessReversed(a, b) ==
    FracLess(b[1], a[1]) \/ (FracEq(a[1], b[1]) /\ VecLess(b[2], a[2]))
RoomLess(a, b) == FracLess(a[1], b[1]) \/ (FracEq(a[1], b[1]) /\ VecLess(a[2], b[2]))

\* max(unblocked): the first greatest element.
RECURSIVE MaxRoom(_, _, _)
MaxRoom(s, i, best) ==
    IF i > Len(s) THEN best
    ELSE MaxRoom(s, i + 1, IF RoomLess(best, s[i]) THEN s[i] ELSE best)

\* backup that forgets the neighbours without full room.
RECURSIVE BackupLoopFullRoomOnly(_, _, _, _)
BackupLoopFullRoomOnly(directions, i, unblocked, asked) ==
    IF i > Len(directions)
    THEN [direction |-> None, asked |-> asked]
    ELSE LET next_point == Step(head, directions[i])
         IN IF is_block(next_point)
            THEN BackupLoopFullRoomOnly(directions, i + 1, unblocked, asked \cup {next_point})
            ELSE LET fr == free_room(next_point)
                 IN IF FracEq(fr.room, One)
                    THEN [direction |-> directions[i],
                          asked |-> asked \cup {next_point} \cup fr.asked]
                    ELSE BackupLoopFullRoomOnly(directions, i + 1, unblocked,
                                                asked \cup {next_point} \cup fr.asked)

\* backup's loop over the shuffled directions from index i, and its end.
RECURSIVE BackupLoop(_, _, _, _)
BackupLoop(directions, i, unblocked, asked) ==
    IF i > Len(directions)
    THEN [direction |-> IF unblocked # <<>>
                        THEN MaxRoom(unblocked, 2, unblocked[1])[2]
                        ELSE None,
          asked |-> asked]
    ELSE LET next_point == Step(head, directions[i])
         IN IF is_block(next_point)
            THEN BackupLoop(directions, i + 1, unblocked, asked \cup {next_point})
            ELSE LET fr == free_room(next_point)
                 IN IF FracEq(fr.room, One)
                    THEN [direction |-> directions[i],
                          asked |-> asked \cup {next_point} \cup fr.asked]
                    ELSE BackupLoop(directions, i + 1,
                                    Append(unblocked, <<fr.room, directions[i]>>),
                                    asked \cup {next_point} \cup fr.asked)

backup(directions) == BackupLoop(directions, 1, <<>>, {})

\* --------------------------------------------------------------- actions
\* __init__ (the world is the host's).
InitAgent ==
    /\ memo = [p \in {} |-> TRUE]
    /\ length = 0
    /\ head = Position(0, 0)
    /\ tail = Position(0, 0)
    /\ body = <<>>
    /\ plan = <<>>
    /\ plan_directions = <<>>
    /\ cx = 0
    /\ cy = 0
    /\ point = <<>>
    /\ pc = "idle"
    /\ raised = NoResult
    /\ via = NoResult
    /\ result = NoResult

\* next_direction on the snapshot w, lines 191-197 up to get_to's loop: the
\* cache is cleared, the position rescanned, the target chosen.  A division by
\* zero in find_best leaves next_direction with the exception.
Begin(w) ==
    /\ pc = "idle"
    /\ world' = w
    /\ memo' = cache_clear(memo)
    /\ LET st == get_position(w)
       IN /\ length' = st.length
          /\ head' = st.head
          /\ tail' = st.tail
          /\ body' = st.body
          /\ IF FindBestRaises(w, st.head)
             THEN /\ raised' = "ZeroDivisionError"
                  /\ result' = "ZeroDivisionError"
                  /\ via' = "raise"
                  /\ pc' = "idle"
                  /\ UNCHANGED <<plan, plan_directions, cx, cy, point>>
             ELSE LET best == find_best(w, st.head)
                  IN /\ raised' = NoResult
                     /\ result' = NoResult
                     /\ via' = NoResult
                     /\ point' = best
                     /\ IF best = <<>>
                        THEN /\ pc' = "backup"
                             /\ UNCHANGED <<plan, plan_directions, cx, cy>>
                        ELSE /\ pc' = "plan"
                             /\ plan' = <<>>
                             /\ plan_directions' = <<>>
                             /\ cx' = st.head[1]
                             /\ cy' = st.head[2]

\* One iteration of get_to's while loop (lines 68-97).
PlanStep ==
    /\ pc = "plan"
    /\ ~(cx = point[1][1] /\ cy = point[1][2])
    /\ LET dx == cx - point[1][1]
           dy == cy - point[1][2]
       IN \E dirs \in iter_directions(preferred_direction(dx, dy), backup_directions(dx, dy)) :
            LET t == TryDirections(dirs, 1, {})
            IN /\ memo' = Remember(t.asked)
               /\ IF t.found
                  THEN /\ plan' = Append(plan, t.next_point)
                       /\ plan_directions' = Append(plan_directions, t.direction)
                       /\ cx' = t.next_point[1]
                       /\ cy' = t.next_point[2]
                       /\ UNCHANGED <<pc, raised>>
                  ELSE /\ raised' = "CannotContinue"
                       /\ pc' = "backup"
                       /\ UNCHANGED <<plan, plan_directions, cx, cy>>
    /\ UNCHANGED <<world, length, head, tail, body, point, via, result>>

\* get_to returned: lines 201-204.
PlanDone ==
    /\ pc = "plan"
    /\ cx = point[1][1] /\ cy = point[1][2]
    /\ IF plan_directions # <<>>
       THEN /\ result' = Head(plan_directions)
            /\ plan_directions' = Tail(plan_directions)
            /\ via' = "plan"
            /\ pc' = "idle"
       ELSE /\ pc' = "backup"
            /\ UNCHANGED <<result, plan_directions, via>>
    /\ UNCHANGED <<world, memo, length, head, tail, body, plan, cx, cy, point, raised>>

\* return self.backup() (lines 195, 199, 204).
Backup ==
    /\ pc = "backup"
    /\ \E directions \in Orders({DIRECTIONS[i] : i \in 1..Len(DIRECTIONS)}) :
         LET b == backup(directions)
         IN /\ result' = b.direction
            /\ memo' = Remember(b.asked)
    /\ via' = "backup"
    /\ pc' = "idle"
    /\ UNCHANGED <<world, length, head, tail, body, plan, plan_directions,
                   cx, cy, point, raised>>

\* ------------------------------------------------------------ the host
Cell(char, color) == [char |-> char, color |-> color]
Void == Cell(CH_VOID, NoColor)

\* What the host draws: stone, the agent's head, body and tail, a foreign
\* snake's segment, a dead snake's remains, two rewards.
Palette ==
    {Cell(CH_STONE, NoColor), Cell(CH_HEAD, MyColor), Cell(CH_BODY, MyColor),
     Cell(CH_TAIL, MyColor), Cell(CH_BODY, OtherColor), Cell(CH_DEAD, NoColor),
     Cell("2", NoColor), Cell("5", NoColor)}

\* What the host draws in the changing world.
DrawPalette ==
    {Cell(CH_STONE, NoColor), Cell(CH_HEAD, MyColor), Cell(CH_BODY, OtherColor),
     Cell(CH_DEAD, NoColor), Cell("5", NoColor)}

Objects(w) == {p \in Coords : w[p] # Void}

\* The host draws a snake with one head and one tail at most.
WellFormed(w) ==
    /\ Cardinality({p \in Coords : w[p] = Cell(CH_HEAD, MyColor)}) <= 1
    /\ Cardinality({p \in Coords : w[p] = Cell(CH_TAIL, MyColor)}) <= 1

\* The snapshots with at most n non-void cells.
Worlds(n) ==
    UNION {{[p \in Coords |-> IF p \in S THEN a[p] ELSE Void] :
              a \in {b \in [S -> Palette] :
                       /\ Cardinality({p \in S : b[p] = Cell(CH_HEAD, MyColor)}) <= 1
                       /\ Cardinality({p \in S : b[p] = Cell(CH_TAIL, MyColor)}) <= 1}} :
           S \in {T \in SUBSET Coords : Cardinality(T) <= n}}

\* A tick of the changing world: the host has redrawn one cell since the last
\* decision (or none), then asks for the next direction.
HostTick ==
    \E p \in Coords, c \in DrawPalette \cup {Void} :
        LET w == [world EXCEPT ![p] = c]
        IN /\ WellFormed(w)
           /\ Cardinality(Objects(w)) <= MaxDrawn
           /\ Begin(w)

\* A tick on an unchanged world.
Tick == Begin(world)

Init ==
    /\ world = [p \in Coords |-> Void]
    /\ InitAgent

Next == HostTick \/ PlanStep \/ PlanDone \/ Backup

\* The agent in a world the host changes between decisions.
Spec == Init /\ [][Next]_vars

InitSnapshot ==
    /\ world \in Worlds(MaxObjects)
    /\ InitAgent

NextSnapshot == Tick \/ PlanStep \/ PlanDone \/ Backup

\* The agent deciding on one snapshot, any of the bounded family.
SpecSnapshot == InitSnapshot /\ [][NextSnapshot]_vars

\* ------------------------------------------------- what the claims refer to
\* The blocked cells of a snapshot, read off the snapshot itself.
RefBlocked(w, p) ==
    \/ ~(0 <= p[1] /\ p[1] < SIZE_X /\ 0 <= p[2] /\ p[2] < SIZE_Y)
    \/ w[p].char \in {CH_STONE, CH_HEAD, CH_BODY, CH_TAIL, CH_DEAD}

Adjacent(p, q) ==
    \/ (p[1] = q[1] /\ (p[2] = q[2] + 1 \/ q[2] = p[2] + 1))
    \/ (p[2] = q[2] /\ (p[1] = q[1] + 1 \/ q[1] = p[1] + 1))

\* The open cells 4-connected to start through open cells.
RECURSIVE Grow(_, _)
Grow(w, S) ==
    LET T == S \cup {q \in Coords : ~RefBlocked(w, q) /\ \E r \in S : Adjacent(q, r)}
    IN IF T = S THEN S ELSE Grow(w, T)
RefReach(w, start) == IF RefBlocked(w, start) THEN {} ELSE Grow(w, {start})

\* 1.0 when limit <= N, N / limit otherwise.
RefFraction(w, start, limit) ==
    LET N == Cardinality(RefReach(w, start))
    IN IF limit <= N THEN One ELSE <<N, limit>>

Dirs == {UP, DOWN, LEFT, RIGHT}
HasHead(w) == \E p \in Coords : w[p] = Cell(CH_HEAD, MyColor)
Owned(w) == {p \in Coords : w[p].color = MyColor}
\* next_direction has handed a value (or an exception) to the host.
Returned == pc = "idle" /\ result # NoResult
\* The cycle has rescanned the snapshot in world.
Refreshed == pc # "idle" \/ result # NoResult
Enclosed == \A d \in Dirs : RefBlocked(world, Step(head, d))
OpenNeighbours == {d \in Dirs : ~RefBlocked(world, Step(head, d))}

\* C1: on a snapshot that holds the agent's head, next_direction returns None
\* if and only if all four neighbours of the head are blocked, and a direction
\* otherwise.
C1_NoneIffEnclosed ==
    (Returned /\ HasHead(world)) =>
        /\ result \in Dirs \cup {None}
        /\ (result = None <=> Enclosed)

\* C1's case: the head is enclosed and the fallback found no direction.
C1_Witness ==
    /\ Returned /\ HasHead(world) /\ Enclosed
    /\ via = "backup" /\ result = None

\* C2: whatever the snapshot, next_direction hands the host a direction or
\* None; no exception escapes.
C2_NoFailureEscapes == pc = "idle" => result \in Dirs \cup {None, NoResult}

\* The plan as get_to holds it: being built, abandoned by CannotContinue, or
\* returned and used.
PlanIsCurrent ==
    \/ pc = "plan"
    \/ (pc = "backup" /\ raised = "CannotContinue")
    \/ (pc = "idle" /\ via = "plan")
PlanReturned ==
    \/ (pc = "plan" /\ cx = point[1][1] /\ cy = point[1][2])
    \/ (pc = "idle" /\ via = "plan")

\* C3: the plan under construction never repeats a coordinate, starts next to
\* the head and moves by 4-adjacent steps; when get_to returns it ends on the
\* target.
C3_SimplePath ==
    PlanIsCurrent =>
        /\ \A i, j \in 1..Len(plan) : i # j => plan[i] # plan[j]
        /\ Len(plan) > 0 => Adjacent(head, plan[1])
        /\ \A i \in 1..(Len(plan) - 1) : Adjacent(plan[i], plan[i + 1])
        /\ PlanReturned => (Len(plan) > 0 /\ plan[Len(plan)] = point[1])

\* C3's case: a returned plan that had to leave the straight line.
C3_Witness ==
    /\ pc = "idle" /\ via = "plan" /\ Len(plan) >= 3
    /\ distance(head, point[1]) < Len(plan)

ProbePoints == {Position(x, y) : x \in (-1)..SIZE_X, y \in (-1)..SIZE_Y}
\* The cycle has just started: nothing is cached yet.
FreshCycle == pc # "idle" /\ DOMAIN memo = {}

\* C4: for every start and every limit >= 1, free_room with length = limit is
\* 1.0 when limit <= N and N / limit otherwise, N the number of open cells
\* connected to start; so it never decreases when limit decreases.
C4_ReachableFraction ==
    FreshCycle =>
        \A start \in ProbePoints :
            /\ \A limit \in 1..MaxLimit :
                 FreeRoomAt(start, limit).room = RefFraction(world, start, limit)
            /\ \A l1, l2 \in 1..MaxLimit :
                 l1 < l2 => ~FracLess(FreeRoomAt(start, l1).room, FreeRoomAt(start, l2).room)

\* C4's case: a pocket smaller than the agent, next to a blocked cell.
C4_Witness ==
    /\ FreshCycle
    /\ \E start \in Coords :
         /\ FreeRoomAt(start, length).room[1] = 2
         /\ length = 3
         /\ \E d \in Dirs : Step(start, d) \in Coords /\ RefBlocked(world, Step(start, d))

DigitCells(w) == {p \in Coords : w[p].char \in Digits}
\* find_best returned in this cycle (it did not raise).
BestChosen == Refreshed /\ via # "raise"

C6_AnswersOfThisSnapshot ==
    \A p \in DOMAIN memo : memo[p] = RefBlocked(world, p)

\* C6's case: answers given in a cycle, for a blocked cell of the grid, a free
\* one and a point outside.
C6_Witness ==
    /\ \E p \in DOMAIN memo : p \in Coords /\ memo[p]
    /\ \E p \in DOMAIN memo : p \in Coords /\ ~memo[p]
    /\ \E p \in DOMAIN memo : p \notin Coords

BodySet == {body[i] : i \in 1..Len(body)}

\* C7: after get_position, length is the number of cells the agent owns, body
\* holds exactly those cells, and when the agent owns a cell the recorded head
\* and tail are cells of the body.
C7_SnapshotConsistent ==
    Refreshed =>
        /\ length = Cardinality(Owned(world))
        /\ BodySet = Owned(world)
        /\ Len(body) = length
        /\ Owned(world) # {} => (head \in BodySet /\ tail \in BodySet)

\* C8: when a neighbour of the head is free, backup returns a direction to a
\* free neighbour whose reachable fraction (limit = length) is the greatest of
\* all free neighbours.
C8_BackupIsBest ==
    (pc = "idle" /\ via = "backup" /\ OpenNeighbours # {}) =>
        /\ result \in OpenNeighbours
        /\ \A d \in OpenNeighbours :
             ~FracLess(RefFraction(world, Step(head, result), length),
                       RefFraction(world, Step(head, d), length))

\* C8's case: no neighbour has room for the whole agent and two free
\* neighbours differ.
C8_Witness ==
    /\ pc = "idle" /\ via = "backup" /\ result \in OpenNeighbours
    /\ FracLess(RefFraction(world, Step(head, result), length), One)
    /\ \E d \in OpenNeighbours :
         FracLess(RefFraction(world, Step(head, d), length),
                  RefFraction(world, Step(head, result), length))

\* The axis-dominance rule of the claim.  "Vertical toward the target" is up
\* when dy > 0 and down otherwise, "horizontal toward the target" left when
\* dx > 0 and right otherwise.
VerticalToward(dy) == IF dy > 0 THEN UP ELSE DOWN
HorizontalToward(dx) == IF dx > 0 THEN LEFT ELSE RIGHT
RulePreferred(dx, dy) ==
    IF dx = 0 THEN VerticalToward(dy)
    ELSE IF dy = 0 THEN HorizontalToward(dx)
    ELSE IF Abs(dx) > Abs(dy) THEN HorizontalToward(dx)
    ELSE VerticalToward(dy)
\* bothVertical: with dy = 0 the backups are up and down (as amended) instead
\* of the one vertical direction (as claimed).
RuleBackups(dx, dy, bothVertical) ==
    IF dx = 0 THEN {LEFT, RIGHT}
    ELSE IF dy = 0 THEN (IF bothVertical THEN {UP, DOWN} ELSE {VerticalToward(dy)})
    ELSE IF Abs(dx) > Abs(dy) THEN {VerticalToward(dy)}
    ELSE {HorizontalToward(dx)}

Acceptable(p) ==
    /\ ~RefBlocked(world, p)
    /\ \A i \in 1..Len(plan) : plan[i] # p
    /\ RefFraction(world, p, length) = One

Commits(d) ==
    /\ plan' = Append(plan, Step(Position(cx, cy), d))
    /\ plan_directions' = Append(plan_directions, d)
    /\ raised' = raised

\* One step of get_to under the rule.
StepFollowsRule(bothVertical) ==
    (pc = "plan" /\ ~(cx = point[1][1] /\ cy = point[1][2])) =>
        LET dx == cx - point[1][1]
            dy == cy - point[1][2]
            pref == RulePreferred(dx, dy)
            good == {d \in RuleBackups(dx, dy, bothVertical) :
                       Acceptable(Step(Position(cx, cy), d))}
        IN IF Acceptable(Step(Position(cx, cy), pref)) THEN Commits(pref)
           ELSE IF good # {} THEN \E d \in good : Commits(d)
           ELSE raised' = "CannotContinue" /\ plan' = plan /\ pc' = "backup"

\* C9 as claimed: with dy = 0 the only backup is the vertical direction toward
\* the target.
C9_StepRuleAsClaimed == [][StepFollowsRule(FALSE)]_vars

\* C9 as amended: every step of get_to commits the preferred direction of the
\* axis-dominance rule when its next point is free, not in the plan and has
\* fraction 1.0, else a backup direction that meets the three conditions, and
\* raises CannotContinue exactly when none does; with dy = 0 the backups are
\* up and down.
C9_StepRule == [][StepFollowsRule(TRUE)]_vars

\* C9's case: the preferred direction was refused for lack of room and a
\* backup direction committed.
C9_Witness ==
    /\ pc = "plan" /\ Len(plan) = 1 /\ HasHead(world) /\ length >= 2
    /\ LET dx == head[1] - point[1][1]
           dy == head[2] - point[1][2]
           np == Step(head, RulePreferred(dx, dy))
       IN /\ plan_directions[1] # RulePreferred(dx, dy)
          /\ ~RefBlocked(world, np)
          /\ FracLess(RefFraction(world, np, length), One)

\* C10: a direction returned by next_direction leads from the head to a cell
\* of the grid that is not blocked in the snapshot.
C10_NeverIntoBlocked ==
    (pc = "idle" /\ result \in Dirs) => ~RefBlocked(world, Step(head, result))

\* C10's case: a direction taken from a plan, next to stone or remains.
C10_Witness ==
    /\ pc = "idle" /\ via = "plan" /\ result \in Dirs
    /\ \E d \in Dirs : Step(head, d) \in Coords
                       /\ world[Step(head, d)].char \in {CH_STONE, CH_DEAD}

====
